---------------------------- MODULE Spec2Model ----------------------------
(***************************************************************************)
(* State-machine model of the two-team maze race server.                   *)
(*                                                                         *)
(* The current server (src/unnamed/part_000, lines 1-468) is modelled by   *)
(* Spec: map loading, command intake with cooldown, start_race, next_map,  *)
(* the 300 ms tick handler, applyMove with walls, ledges, boulders and     *)
(* cube collision, and the one-shot reset timer.  The earlier revision     *)
(* src/server.js (no boulders, no cube collision, clamped moves) is        *)
(* modelled by SpecLegacy over the same variables.                         *)
(*                                                                         *)
(* Time is explicit: `now` is the value of Date.now() in milliseconds, the *)
(* interval timer is due at `nextTick`, every pending setTimeout is an     *)
(* entry of `resetTimers` holding its due time.  Handlers run atomically   *)
(* (single event loop).                                                    *)
(***************************************************************************)
EXTENDS Integers, Sequences, FiniteSets, TLC

VARIABLES
  mapIndex,     \* let mapIndex: index into MAP_FILES (0-based)
  MAP,          \* let MAP: the loaded map definition
  teams,        \* const teams: id -> [cube, commandQueue]
  boulders,     \* let boulders: sequence of cells
  players,      \* const players: socket id -> [teamId, lastCommandTime]
  raceStarted,  \* let raceStarted
  now,          \* Date.now()
  nextTick,     \* due time of the setInterval timer
  resetTimers,  \* due times of the pending setTimeout reset callbacks
  connections,  \* number of sockets accepted so far (socket ids are never reused)
  horizon,      \* the time from which the clients of the model are silent
  last          \* the handler that ran last and what it emitted and logged

vars == <<mapIndex, MAP, teams, boulders, players, raceStarted, now,
          nextTick, resetTimers, connections, horizon, last>>

---------------------------------------------------------------------------
(* Bounds of the model *)

NumSockets == 2      \* connections accepted over a run
MaxSteps == 5        \* clock steps during which clients send events
LiveSteps == 2       \* the same, where liveness is checked
StartTime == 1000    \* Date.now() when the process starts

(* Program constants *)

COMMAND_COOLDOWN_MS == 1000
TICK_MS == 300
RESET_DELAY_MS == 3000

TEAM_IDS == <<"red", "blue">>
Teams == {TEAM_IDS[i] : i \in 1..Len(TEAM_IDS)}
Directions == {"up", "down", "left", "right"}
Commands == Directions \cup {"jump"}    \* "jump" stands for any other payload
SocketIds == 1..NumSockets
Null == "null"

(* The clock advances by one tick period at a time. *)
TimeStep == TICK_MS
MaxTime == StartTime + MaxSteps * TimeStep
LiveTime == StartTime + LiveSteps * TimeStep

---------------------------------------------------------------------------
(* Map files: the contents of maps/*.txt, one sequence of characters per   *)
(* line, in the sorted order of MAP_FILES.                                 *)

MapFile1 == << <<"R", "G", "B">>,
               <<".", "O", ".">>,
               <<"V", ".", "#">>,
               <<".", ".", ".">> >>

MapFile2 == << <<"B", ".", "R">>,
               <<".", "O", "G">> >>

MAP_FILES == <<MapFile1, MapFile2>>

Cell(x, y) == [x |-> x, y |-> y]

(* Cells of the grid holding character c, in the order lines.forEach /     *)
(* [...line].forEach visits them (row by row, left to right).              *)
RECURSIVE ScanRow(_, _, _, _)
ScanRow(line, y, x, c) ==
  IF x >= Len(line) THEN <<>>
  ELSE (IF line[x + 1] = c THEN <<Cell(x, y)>> ELSE <<>>)
       \o ScanRow(line, y, x + 1, c)

RECURSIVE ScanLines(_, _, _)
ScanLines(lines, y, c) ==
  IF y >= Len(lines) THEN <<>>
  ELSE ScanRow(lines[y + 1], y, 0, c) \o ScanLines(lines, y + 1, c)

SeqRange(s) == {s[i] : i \in 1..Len(s)}

(* null for a cell-valued field: a record no cell of a grid equals *)
NoCell == Cell(0 - 1, 0 - 1)

(* A later assignment overwrites an earlier one. *)
LastOrNull(s) == IF s = <<>> THEN NoCell ELSE s[Len(s)]

loadMapFromFile(lines) ==
  [width    |-> Len(lines[1]),
   height   |-> Len(lines),
   walls    |-> SeqRange(ScanLines(lines, 0, "#")),
   ledges   |-> SeqRange(ScanLines(lines, 0, "V")),
   hole     |-> LastOrNull(ScanLines(lines, 0, "G")),
   boulders |-> ScanLines(lines, 0, "O"),
   starts   |-> [id \in Teams |->
                   LastOrNull(ScanLines(lines, 0,
                                IF id = "red" THEN "R" ELSE "B"))]]

validateMap(map) ==
  /\ \A id \in Teams : map.starts[id] # NoCell
  /\ map.hole # NoCell

---------------------------------------------------------------------------
(* Helpers *)

RECURSIVE CountTeam(_, _, _)
CountTeam(pl, ids, id) ==
  IF ids = {} THEN 0
  ELSE LET s == CHOOSE t \in ids : TRUE
       IN (IF pl[s].teamId = id THEN 1 ELSE 0) + CountTeam(pl, ids \ {s}, id)

getTeamCounts(pl) == [id \in Teams |-> CountTeam(pl, DOMAIN pl, id)]

(* the reduce with `<=`: among equals the last team is kept *)
RECURSIVE ReduceBestLast(_, _, _)
ReduceBestLast(counts, i, best) ==
  IF i > Len(TEAM_IDS) THEN best
  ELSE ReduceBestLast(counts, i + 1,
         IF counts[TEAM_IDS[i]] <= counts[best] THEN TEAM_IDS[i] ELSE best)

RECURSIVE ReduceBest(_, _, _)
ReduceBest(counts, i, best) ==
  IF i > Len(TEAM_IDS) THEN best
  ELSE ReduceBest(counts, i + 1,
                  IF counts[TEAM_IDS[i]] < counts[best] THEN TEAM_IDS[i] ELSE best)

assignTeam(pl) == ReduceBest(getTeamCounts(pl), 1, TEAM_IDS[1])

(* walls that stop nothing *)
isWallNever(map, x, y) == FALSE

isWall(map, x, y) == Cell(x, y) \in map.walls

(* a map without ledges, as src/server.js loads it *)
isLedgeNever(map, x, y) == FALSE

isLedge(map, x, y) == Cell(x, y) \in map.ledges

RECURSIVE FindIndexFrom(_, _, _, _)
FindIndexFrom(bs, i, x, y) ==
  IF i > Len(bs) THEN -1
  ELSE IF bs[i].x = x /\ bs[i].y = y THEN i - 1
  ELSE FindIndexFrom(bs, i + 1, x, y)

(* Array.findIndex: the 0-based index of the first boulder on (x, y), or -1 *)
boulderIndexAt(bs, x, y) == FindIndexFrom(bs, 1, x, y)

isBoulder(bs, x, y) == boulderIndexAt(bs, x, y) # -1

(* the cube check left out, as in src/server.js *)
isCubeAtNever(tms, x, y, ignoreId) == FALSE

(* ignoreCube is compared by object identity: it is the cube of team       *)
(* `ignoreId`, or no cube at all when ignoreId is Null.                    *)
isCubeAt(tms, x, y, ignoreId) ==
  \E id \in Teams :
    /\ id # ignoreId
    /\ tms[id].cube.x = x
    /\ tms[id].cube.y = y

(* bounds that leave out column 0 and row 0 *)
inBoundsOffByOne(map, x, y) == x > 0 /\ x < map.width /\ y > 0 /\ y < map.height

inBounds(map, x, y) == x >= 0 /\ x < map.width /\ y >= 0 /\ y < map.height

---------------------------------------------------------------------------
(* applyMove(cube, cmd): the cube of team `id` is moved in place, a pushed *)
(* boulder is replaced in the boulders array.  The result is the pair of   *)
(* the teams and the boulders after the call.                              *)

Unmoved(tms, bs) == [teams |-> tms, boulders |-> bs]

MoveCube(tms, bs, id, x, y) ==
  [teams |-> [tms EXCEPT ![id].cube = Cell(x, y)], boulders |-> bs]

(* a push that moves the boulder and leaves the cube behind *)
PushBoulderOnly(tms, bs, id, bi, newX, newY, pushX, pushY) ==
  [teams    |-> tms,
   boulders |-> [bs EXCEPT ![bi + 1] = Cell(pushX, pushY)]]

(* a push that moves the cube and leaves the boulder where it is *)
PushBoulderStays(tms, bs, id, bi, newX, newY, pushX, pushY) ==
  [teams    |-> [tms EXCEPT ![id].cube = Cell(newX, newY)],
   boulders |-> bs]

PushBoulder(tms, bs, id, bi, newX, newY, pushX, pushY) ==
  [teams    |-> [tms EXCEPT ![id].cube = Cell(newX, newY)],
   boulders |-> [bs EXCEPT ![bi + 1] = Cell(pushX, pushY)]]

(* The last line applyMove writes with console.log: the branch it leaves   *)
(* through.                                                                *)
moveOutcome(map, tms, bs, id, cmd) ==
  LET cube == tms[id].cube
      dx == IF cmd = "left" THEN -1 ELSE IF cmd = "right" THEN 1 ELSE 0
      dy == IF cmd = "up" THEN -1 ELSE IF cmd = "down" THEN 1 ELSE 0
      newX == cube.x + dx
      newY == cube.y + dy
      bi == boulderIndexAt(bs, newX, newY)
      pushX == newX + dx
      pushY == newY + dy
      landingX == newX
      landingY == newY + 1
  IN IF cmd = Null THEN "RETURN: no cmd"
     ELSE IF dx = 0 /\ dy = 0 THEN "RETURN: dx dy zero"
     ELSE IF ~inBounds(map, newX, newY) THEN "RETURN: out of bounds"
     ELSE IF bi # -1 THEN
       IF ~inBounds(map, pushX, pushY) THEN "RETURN: boulder push OOB"
       ELSE IF isWall(map, pushX, pushY) THEN "RETURN: boulder push wall"
       ELSE IF isLedge(map, pushX, pushY) THEN "RETURN: boulder push ledge"
       ELSE IF isBoulder(bs, pushX, pushY) THEN "RETURN: boulder push boulder"
       ELSE IF isCubeAt(tms, pushX, pushY, id) THEN "RETURN: boulder push cube"
       ELSE "PUSH BOULDER"
     ELSE IF isWall(map, newX, newY) THEN "RETURN: wall"
     ELSE IF isLedge(map, newX, newY) THEN
       IF cmd # "down" THEN "RETURN: ledge wrong direction"
       ELSE IF ~inBounds(map, landingX, landingY) THEN "RETURN: ledge OOB"
       ELSE IF isWall(map, landingX, landingY) THEN "RETURN: ledge wall"
       ELSE IF isLedge(map, landingX, landingY) THEN "RETURN: ledge onto ledge"
       ELSE IF isBoulder(bs, landingX, landingY) THEN "RETURN: ledge onto boulder"
       ELSE IF isCubeAt(tms, landingX, landingY, id) THEN "RETURN: ledge onto cube"
       ELSE "LEDGE JUMP"
     ELSE IF isCubeAt(tms, newX, newY, id) THEN "RETURN: cube collision"
     ELSE "NORMAL MOVE"

applyMove(map, tms, bs, id, cmd) ==
  LET cube == tms[id].cube
      dx == IF cmd = "left" THEN -1 ELSE IF cmd = "right" THEN 1 ELSE 0
      dy == IF cmd = "up" THEN -1 ELSE IF cmd = "down" THEN 1 ELSE 0
      newX == cube.x + dx
      newY == cube.y + dy
      outcome == moveOutcome(map, tms, bs, id, cmd)
  IN IF outcome = "PUSH BOULDER"
     THEN PushBoulder(tms, bs, id, boulderIndexAt(bs, newX, newY), newX, newY,
                      newX + dx, newY + dy)
     ELSE IF outcome = "LEDGE JUMP" THEN MoveCube(tms, bs, id, newX, newY + 1)
     ELSE IF outcome = "NORMAL MOVE" THEN MoveCube(tms, bs, id, newX, newY)
     ELSE Unmoved(tms, bs)

(* Array.shift: the removed first element (undefined when empty) and the   *)
(* rest of the queue.                                                      *)
ShiftHeadPop(q) == IF q = <<>> THEN Null ELSE q[Len(q)]   \* pop() for shift()
ShiftHead(q) == IF q = <<>> THEN Null ELSE Head(q)
ShiftRest(q) == IF q = <<>> THEN <<>> ELSE Tail(q)

(* no applyMove call, no log line *)
NoMoves == [id \in Teams |-> Null]

(* One iteration of the forEach of step 1 of the tick handler. *)
MoveTeam(map, st, id) ==
  LET q == st.teams[id].commandQueue
      shifted == [st.teams EXCEPT ![id].commandQueue = ShiftRest(q)]
      moved == applyMove(map, shifted, st.boulders, id, ShiftHead(q))
  IN [teams    |-> moved.teams,
      boulders |-> moved.boulders,
      moves    |-> [st.moves EXCEPT ![id] =
                      moveOutcome(map, shifted, st.boulders, id, ShiftHead(q))]]

(* step 1 with the teams taken in the reverse order *)
RECURSIVE MoveTeamsFromReversed(_, _, _)
MoveTeamsFromReversed(map, st, i) ==
  IF i > Len(TEAM_IDS) THEN st
  ELSE MoveTeamsFromReversed(map,
         MoveTeam(map, st, TEAM_IDS[Len(TEAM_IDS) + 1 - i]), i + 1)

(* Step 1: Object.values(teams) in insertion order, TEAM_IDS[i..].  Each   *)
(* team is moved in the state `after` the move of the team before it.      *)
RECURSIVE MoveTeamsFrom(_, _, _)
MoveTeamsFrom(map, st, i) ==
  IF i > Len(TEAM_IDS) THEN st
  ELSE CHOOSE result \in {MoveTeamsFrom(map, after, i + 1) :
                            after \in {MoveTeam(map, st, TEAM_IDS[i])}} : TRUE

MoveAllTeams(map, tms, bs) ==
  MoveTeamsFrom(map, [teams |-> tms, boulders |-> bs, moves |-> NoMoves], 1)

(* Step 2: every team on the hole assigns `winner`, in iteration order. *)
RECURSIVE WinnerFrom(_, _, _, _)
WinnerFrom(map, tms, i, winner) ==
  IF i > Len(TEAM_IDS) THEN winner
  ELSE WinnerFrom(map, tms, i + 1,
         IF tms[TEAM_IDS[i]].cube.x = map.hole.x
            /\ tms[TEAM_IDS[i]].cube.y = map.hole.y
         THEN TEAM_IDS[i] ELSE winner)

(* the first team on the hole keeps the win: `if (!winner && ...)` *)
RECURSIVE FirstWinnerFrom(_, _, _)
FirstWinnerFrom(map, tms, i) ==
  IF i > Len(TEAM_IDS) THEN Null
  ELSE IF tms[TEAM_IDS[i]].cube = map.hole THEN TEAM_IDS[i]
  ELSE FirstWinnerFrom(map, tms, i + 1)

CheckWinnerFirst(map, tms) == FirstWinnerFrom(map, tms, 1)

CheckWinner(map, tms) == WinnerFrom(map, tms, 1, Null)

(* The state every reset writes: cubes on the map's start cells, empty     *)
(* queues, a copy of the map's boulders.                                   *)
StartTeams(map) ==
  [id \in Teams |-> [cube |-> map.starts[id], commandQueue |-> <<>>]]

StartBoulders(map) == map.boulders

(* What the last handler sent and logged: the event emitted (Null: none),  *)
(* its winner or cooldownMs field, its raceStarted field, and for a tick   *)
(* the commands of its 'APPLY MOVE' log lines and the last log line of     *)
(* each team's applyMove call.                                             *)
Output(handler, emit, arg, started, log, moves) ==
  [handler |-> handler, emit |-> emit, arg |-> arg, started |-> started,
   log |-> log, moves |-> moves]

Emitted(handler, emit, arg) == Output(handler, emit, arg, Null, Null, NoMoves)

Snapshot(handler, emit, started) ==
  Output(handler, emit, Null, started, Null, NoMoves)

(* The command each team's shift() returned in step 1 of a tick. *)
Shifted(tms) == [id \in Teams |-> ShiftHead(tms[id].commandQueue)]

---------------------------------------------------------------------------
(* Initial state: module load of the server. *)

Init ==
  /\ mapIndex = 0
  /\ MAP = loadMapFromFile(MAP_FILES[1])
  /\ validateMap(MAP)
  /\ teams = StartTeams(MAP)
  /\ boulders = StartBoulders(MAP)
  /\ players = <<>>
  /\ raceStarted = FALSE
  /\ now = StartTime
  /\ nextTick = StartTime + TICK_MS
  /\ resetTimers = <<>>
  /\ connections = 0
  /\ horizon = MaxTime
  /\ last = Emitted("listen", Null, Null)

(* Clients send events only up to the horizon of the model. *)
ClientsActive == now < horizon

---------------------------------------------------------------------------
(* Socket handlers *)

Connection(s) ==
  /\ ClientsActive
  /\ s = connections + 1
  /\ connections' = s
  /\ players' = [x \in DOMAIN players \cup {s} |->
                   IF x = s
                   THEN [teamId |-> assignTeam(players), lastCommandTime |-> 0]
                   ELSE players[x]]
  /\ last' = Snapshot("connection", "init", raceStarted)
  /\ UNCHANGED <<mapIndex, MAP, teams, boulders, raceStarted, now, nextTick,
                 resetTimers, horizon>>

(* the version without the raceStarted check (part_000:617-633) *)
CommandOutcomeNoRaceCheck(cmd, started, timeSinceLast) ==
  IF cmd \notin Directions THEN "ignored"
  ELSE IF timeSinceLast < COMMAND_COOLDOWN_MS THEN "rate_limited"
  ELSE "accepted"

(* the cooldown check left out *)
CommandOutcomeNoCooldown(cmd, started, timeSinceLast) ==
  IF cmd \notin Directions THEN "ignored"
  ELSE IF ~started THEN "race_not_started"
  ELSE "accepted"

(* The early returns of the command handler, in order. *)
CommandOutcome(cmd, started, timeSinceLast) ==
  IF cmd \notin Directions THEN "ignored"
  ELSE IF ~started THEN "race_not_started"
  ELSE IF timeSinceLast < COMMAND_COOLDOWN_MS THEN "rate_limited"
  ELSE "accepted"

Command(s, cmd) ==
  /\ ClientsActive
  /\ s \in DOMAIN players
  /\ LET player == players[s]
         timeSinceLast == now - player.lastCommandTime
         outcome == CommandOutcome(cmd, raceStarted, timeSinceLast)
     IN IF outcome = "ignored"
        THEN /\ last' = Emitted("command", Null, Null)
             /\ UNCHANGED <<teams, players>>
        ELSE IF outcome = "race_not_started"
        THEN /\ last' = Emitted("command", "race_not_started", Null)
             /\ UNCHANGED <<teams, players>>
        ELSE IF outcome = "rate_limited"
        THEN /\ last' = Emitted("command", "rate_limited",
                                COMMAND_COOLDOWN_MS - timeSinceLast)
             /\ UNCHANGED <<teams, players>>
        ELSE /\ players' = [players EXCEPT ![s].lastCommandTime = now]
             /\ teams' = [teams EXCEPT ![player.teamId].commandQueue =
                                          Append(@, cmd)]
             /\ last' = Emitted("command", "command_echo", Null)
  /\ UNCHANGED <<mapIndex, MAP, boulders, raceStarted, now, nextTick,
                 resetTimers, connections, horizon>>

(* start_race as in src/server.js: the boulders are not restored *)
StartRaceKeepsBoulders(s) ==
  /\ ClientsActive
  /\ s \in DOMAIN players
  /\ IF raceStarted
     THEN /\ last' = Emitted("start_race", Null, Null)
          /\ UNCHANGED <<teams, boulders, raceStarted>>
     ELSE /\ raceStarted' = TRUE
          /\ teams' = StartTeams(MAP)
          /\ boulders' = boulders
          /\ last' = Snapshot("start_race", "race_started", TRUE)
  /\ UNCHANGED <<mapIndex, MAP, players, now, nextTick, resetTimers,
                 connections, horizon>>

(* start_race without its `if (raceStarted) return` *)
StartRaceAlways(s) ==
  /\ ClientsActive
  /\ s \in DOMAIN players
  /\ raceStarted' = TRUE
  /\ teams' = StartTeams(MAP)
  /\ boulders' = StartBoulders(MAP)
  /\ last' = Snapshot("start_race", "race_started", TRUE)
  /\ UNCHANGED <<mapIndex, MAP, players, now, nextTick, resetTimers,
                 connections, horizon>>

StartRace(s) ==
  /\ ClientsActive
  /\ s \in DOMAIN players
  /\ IF raceStarted
     THEN /\ last' = Emitted("start_race", Null, Null)
          /\ UNCHANGED <<teams, boulders, raceStarted>>
     ELSE /\ raceStarted' = TRUE
          /\ teams' = StartTeams(MAP)
          /\ boulders' = StartBoulders(MAP)
          /\ last' = Snapshot("start_race", "race_started", TRUE)
  /\ UNCHANGED <<mapIndex, MAP, players, now, nextTick, resetTimers,
                 connections, horizon>>

(* a map change that stops the race but leaves the teams and boulders *)
loadNextMapNoReset ==
  LET idx == (mapIndex + 1) % Len(MAP_FILES)
      map == loadMapFromFile(MAP_FILES[idx + 1])
  IN /\ validateMap(map)
     /\ mapIndex' = idx
     /\ MAP' = map
     /\ raceStarted' = FALSE
     /\ UNCHANGED <<teams, boulders>>

(* a map change that swaps the map and leaves the race as it is *)
loadNextMapKeepsRace ==
  LET idx == (mapIndex + 1) % Len(MAP_FILES)
      map == loadMapFromFile(MAP_FILES[idx + 1])
  IN /\ validateMap(map)
     /\ mapIndex' = idx
     /\ MAP' = map
     /\ UNCHANGED <<raceStarted, teams, boulders>>

loadNextMap ==
  LET idx == (mapIndex + 1) % Len(MAP_FILES)
      map == loadMapFromFile(MAP_FILES[idx + 1])
  IN /\ validateMap(map)
     /\ mapIndex' = idx
     /\ MAP' = map
     /\ raceStarted' = FALSE
     /\ teams' = StartTeams(map)
     /\ boulders' = StartBoulders(map)

NextMap(s) ==
  /\ ClientsActive
  /\ s \in DOMAIN players
  /\ loadNextMap
  /\ last' = Snapshot("next_map", "map_changed", FALSE)
  /\ UNCHANGED <<players, now, nextTick, resetTimers, connections,
                 horizon>>

(* a disconnect that also drops what the player's team has queued *)
DisconnectDropsQueue(s) ==
  /\ ClientsActive
  /\ s \in DOMAIN players
  /\ players' = [x \in DOMAIN players \ {s} |-> players[x]]
  /\ teams' = [teams EXCEPT ![players[s].teamId].commandQueue = <<>>]
  /\ last' = Emitted("disconnect", Null, Null)
  /\ UNCHANGED <<mapIndex, MAP, boulders, raceStarted, now, nextTick,
                 resetTimers, connections, horizon>>

Disconnect(s) ==
  /\ ClientsActive
  /\ s \in DOMAIN players
  /\ players' = [x \in DOMAIN players \ {s} |-> players[x]]
  /\ last' = Emitted("disconnect", Null, Null)
  /\ UNCHANGED <<mapIndex, MAP, teams, boulders, raceStarted, now, nextTick,
                 resetTimers, connections,
                 horizon>>

---------------------------------------------------------------------------
(* Timers *)

(* setTimeout(callback, 3000): one more pending reset, due 3000 ms from    *)
(* the time of the call.                                                   *)
ScheduleResetNever(timers, at) == timers     \* the setTimeout call left out
ScheduleReset(timers, at) == Append(timers, at + RESET_DELAY_MS)

(* the tick handler without its `if (!raceStarted)` branch *)
TickAlways ==
  /\ nextTick <= now
  /\ nextTick' = nextTick + TICK_MS
  /\ LET moved == MoveAllTeams(MAP, teams, boulders)
         winner == CheckWinner(MAP, moved.teams)
     IN /\ teams' = moved.teams
        /\ boulders' = moved.boulders
        /\ last' = Output("tick", "state", winner, raceStarted, Shifted(teams),
                          moved.moves)
        /\ IF winner # Null
           THEN /\ raceStarted' = FALSE
                /\ resetTimers' = ScheduleReset(resetTimers, now)
           ELSE UNCHANGED <<raceStarted, resetTimers>>
  /\ UNCHANGED <<mapIndex, MAP, players, now, connections, horizon>>

(* The setInterval callback. *)
Tick ==
  /\ nextTick <= now
  /\ nextTick' = nextTick + TICK_MS
  /\ IF ~raceStarted
     THEN /\ last' = Snapshot("tick", "state", FALSE)
          /\ UNCHANGED <<teams, boulders, raceStarted, resetTimers>>
     ELSE LET moved == MoveAllTeams(MAP, teams, boulders)
              winner == CheckWinner(MAP, moved.teams)
          IN /\ teams' = moved.teams
             /\ boulders' = moved.boulders
             /\ last' = Output("tick", "state", winner, TRUE, Shifted(teams),
                               moved.moves)
             /\ IF winner # Null
                THEN /\ raceStarted' = FALSE
                     /\ resetTimers' = ScheduleReset(resetTimers, now)
                ELSE UNCHANGED <<raceStarted, resetTimers>>
  /\ UNCHANGED <<mapIndex, MAP, players, now, connections, horizon>>

(* a reset that stands down when a race has been started since the win *)
ResetTimeoutGuarded ==
  /\ resetTimers # <<>>
  /\ Head(resetTimers) <= now
  /\ resetTimers' = Tail(resetTimers)
  /\ IF raceStarted
     THEN UNCHANGED <<teams, boulders>>
     ELSE teams' = StartTeams(MAP) /\ boulders' = StartBoulders(MAP)
  /\ last' = Snapshot("timeout", "reset", raceStarted)
  /\ UNCHANGED <<mapIndex, MAP, players, raceStarted, now, nextTick,
                 connections, horizon>>

(* a reset that puts the cubes and boulders back and keeps the queues *)
ResetTimeoutKeepsQueues ==
  /\ resetTimers # <<>>
  /\ Head(resetTimers) <= now
  /\ resetTimers' = Tail(resetTimers)
  /\ teams' = [id \in Teams |-> [cube |-> MAP.starts[id],
                                  commandQueue |-> teams[id].commandQueue]]
  /\ boulders' = StartBoulders(MAP)
  /\ last' = Snapshot("timeout", "reset", raceStarted)
  /\ UNCHANGED <<mapIndex, MAP, players, raceStarted, now, nextTick,
                 connections, horizon>>

(* The setTimeout callback scheduled by a winning tick. *)
ResetTimeout ==
  /\ resetTimers # <<>>
  /\ Head(resetTimers) <= now
  /\ resetTimers' = Tail(resetTimers)
  /\ teams' = StartTeams(MAP)
  /\ boulders' = StartBoulders(MAP)
  /\ last' = Snapshot("timeout", "reset", raceStarted)
  /\ UNCHANGED <<mapIndex, MAP, players, raceStarted, now, nextTick,
                 connections, horizon>>

(* Time passes once every timer that is due has run.  Past the horizon the *)
(* clock keeps running only while work is outstanding: a pending reset or  *)
(* a queued command of a running race.                                     *)
WorkOutstanding ==
  IF resetTimers # <<>> THEN TRUE
  ELSE raceStarted /\ \E id \in Teams : teams[id].commandQueue # <<>>

ClockRuns == IF ClientsActive THEN TRUE ELSE WorkOutstanding

NoTimerDue ==
  /\ nextTick > now
  /\ \A i \in 1..Len(resetTimers) : resetTimers[i] > now

Advance ==
  /\ NoTimerDue
  /\ ClockRuns
  /\ now' = now + TimeStep
  /\ last' = Emitted("clock", Null, Null)
  /\ UNCHANGED <<mapIndex, MAP, teams, boulders, players, raceStarted,
                 nextTick, resetTimers, connections,
                 horizon>>

Next ==
  \/ \E s \in SocketIds : Connection(s)
  \/ \E s \in SocketIds, cmd \in Commands : Command(s, cmd)
  \/ \E s \in SocketIds : StartRace(s)
  \/ \E s \in SocketIds : NextMap(s)
  \/ \E s \in SocketIds : Disconnect(s)
  \/ Tick
  \/ ResetTimeout
  \/ Advance

Spec == Init /\ [][Next]_vars

---------------------------------------------------------------------------
(* The earlier revision of the server, src/server.js: one map loaded once, *)
(* no boulders, no cube collision, moves clamped to the grid.  Its command,*)
(* connection and disconnect handlers are the ones above, line for line.   *)

(* server.js returns neither the ledges nor boulders it may have scanned. *)
loadMapFromFileLegacy(lines) ==
  [width  |-> Len(lines[1]),
   height |-> Len(lines),
   walls  |-> SeqRange(ScanLines(lines, 0, "#")),
   hole   |-> LastOrNull(ScanLines(lines, 0, "G")),
   starts |-> [id \in Teams |->
                 LastOrNull(ScanLines(lines, 0,
                              IF id = "red" THEN "R" ELSE "B"))]]

(* if (!MAP.ledges) return false *)
isLedgeLegacy(map, x, y) ==
  IF "ledges" \in DOMAIN map THEN Cell(x, y) \in map.ledges ELSE FALSE

Min(a, b) == IF a < b THEN a ELSE b
Max(a, b) == IF a > b THEN a ELSE b

applyMoveLegacy(map, tms, id, cmd) ==
  LET cube == tms[id].cube
      rawX == IF cmd = "left" THEN cube.x - 1
              ELSE IF cmd = "right" THEN cube.x + 1 ELSE cube.x
      rawY == IF cmd = "up" THEN cube.y - 1
              ELSE IF cmd = "down" THEN cube.y + 1 ELSE cube.y
      newX == Max(0, Min(map.width - 1, rawX))
      newY == Max(0, Min(map.height - 1, rawY))
      landingX == newX
      landingY == Min(map.height - 1, newY + 1)
  IN IF cmd = Null THEN tms
     ELSE IF isWall(map, newX, newY) THEN tms
     ELSE IF isLedgeLegacy(map, newX, newY) THEN
       IF cmd # "down" THEN tms
       ELSE IF isWall(map, landingX, landingY) THEN tms
       ELSE IF isLedgeLegacy(map, landingX, landingY) THEN tms
       ELSE [tms EXCEPT ![id].cube = Cell(landingX, landingY)]
     ELSE [tms EXCEPT ![id].cube = Cell(newX, newY)]

RECURSIVE MoveTeamsFromLegacy(_, _, _)
MoveTeamsFromLegacy(map, tms, i) ==
  IF i > Len(TEAM_IDS) THEN tms
  ELSE LET id == TEAM_IDS[i]
           q == tms[id].commandQueue
           shifted == [tms EXCEPT ![id].commandQueue = ShiftRest(q)]
       IN MoveTeamsFromLegacy(map,
            applyMoveLegacy(map, shifted, id, ShiftHead(q)), i + 1)

InitLegacy ==
  /\ mapIndex = 0
  /\ MAP = loadMapFromFileLegacy(MAP_FILES[1])
  /\ \A id \in Teams : MAP.starts[id] # NoCell
  /\ teams = StartTeams(MAP)
  /\ boulders = <<>>
  /\ players = <<>>
  /\ raceStarted = FALSE
  /\ now = StartTime
  /\ nextTick = StartTime + TICK_MS
  /\ resetTimers = <<>>
  /\ connections = 0
  /\ horizon = MaxTime
  /\ last = Emitted("listen", Null, Null)

StartRaceLegacy(s) ==
  /\ ClientsActive
  /\ s \in DOMAIN players
  /\ IF ~raceStarted
     THEN /\ raceStarted' = TRUE
          /\ teams' = StartTeams(MAP)
          /\ last' = Snapshot("start_race", "race_started", TRUE)
     ELSE /\ last' = Emitted("start_race", Null, Null)
          /\ UNCHANGED <<teams, raceStarted>>
  /\ UNCHANGED <<mapIndex, MAP, boulders, players, now, nextTick, resetTimers,
                 connections, horizon>>

TickLegacy ==
  /\ nextTick <= now
  /\ nextTick' = nextTick + TICK_MS
  /\ IF ~raceStarted
     THEN /\ last' = Snapshot("tick", "state", FALSE)
          /\ UNCHANGED <<teams, raceStarted, resetTimers>>
     ELSE LET moved == MoveTeamsFromLegacy(MAP, teams, 1)
              winner == CheckWinner(MAP, moved)
          IN /\ teams' = moved
             /\ last' = Output("tick", "state", winner, TRUE, Shifted(teams),
                               NoMoves)
             /\ IF winner # Null
                THEN /\ raceStarted' = FALSE
                     /\ resetTimers' = ScheduleReset(resetTimers, now)
                ELSE UNCHANGED <<raceStarted, resetTimers>>
  /\ UNCHANGED <<mapIndex, MAP, boulders, players, now, connections, horizon>>

ResetTimeoutLegacy ==
  /\ resetTimers # <<>>
  /\ Head(resetTimers) <= now
  /\ resetTimers' = Tail(resetTimers)
  /\ teams' = StartTeams(MAP)
  /\ last' = Snapshot("timeout", "reset", raceStarted)
  /\ UNCHANGED <<mapIndex, MAP, boulders, players, raceStarted, now, nextTick,
                 connections, horizon>>

NextLegacy ==
  \/ \E s \in SocketIds : Connection(s)
  \/ \E s \in SocketIds, cmd \in Commands : Command(s, cmd)
  \/ \E s \in SocketIds : StartRaceLegacy(s)
  \/ \E s \in SocketIds : Disconnect(s)
  \/ TickLegacy
  \/ ResetTimeoutLegacy
  \/ Advance

SpecLegacy == InitLegacy /\ [][NextLegacy]_vars

(* The timers are served by the event loop: a due callback runs, and the   *)
(* clock moves on.                                                         *)
InitLive ==
  /\ mapIndex = 0
  /\ MAP = loadMapFromFile(MAP_FILES[1])
  /\ validateMap(MAP)
  /\ teams = StartTeams(MAP)
  /\ boulders = StartBoulders(MAP)
  /\ players = <<>>
  /\ raceStarted = FALSE
  /\ now = StartTime
  /\ nextTick = StartTime + TICK_MS
  /\ resetTimers = <<>>
  /\ connections = 0
  /\ horizon = LiveTime
  /\ last = Emitted("listen", Null, Null)

FairSpec ==
  /\ InitLive
  /\ [][Next]_vars
  /\ WF_vars(Tick)
  /\ WF_vars(ResetTimeout)
  /\ WF_vars(Advance)

---------------------------------------------------------------------------
(* The movement rules on their whole input space.  MAP is a map file with  *)
(* every kind of cell next to every other; a race is running on it and the *)
(* tick is due; the cubes, the boulders and the queued commands are any    *)
(* the server can hold in a running race: cubes on distinct cells that are *)
(* neither wall nor ledge nor the hole, as many boulders as the map        *)
(* defines on distinct cells that are neither wall nor ledge nor under a   *)
(* cube.  The clients are silent; the tick handler and the reset run.      *)

MaxQueue == 1        \* queued commands per team when the tick runs

ArenaFile == << <<"R", "O", "B", ".">>,
                <<"V", "V", "G", "V">>,
                <<"V", "O", ".", "#">>,
                <<".", "#", "V", ".">> >>

GridCells(map) ==
  {Cell(x, y) : x \in 0..(map.width - 1), y \in 0..(map.height - 1)}

FreeCells(map) == GridCells(map) \ (map.walls \cup map.ledges)

Queues == UNION {[1..n -> Directions] : n \in 0..MaxQueue}

(* The sequences of n distinct cells of S. *)
DistinctSeqs(S, n) ==
  {s \in [1..n -> S] : \A i, j \in 1..n : i # j => s[i] # s[j]}

InitMove ==
  /\ mapIndex = 0
  /\ MAP = loadMapFromFile(ArenaFile)
  /\ validateMap(MAP)
  /\ raceStarted = TRUE
  /\ teams \in {t \in [Teams -> [cube : FreeCells(MAP) \ {MAP.hole},
                                  commandQueue : Queues]] :
                  \A a, b \in Teams : a # b => t[a].cube # t[b].cube}
  /\ boulders \in DistinctSeqs(FreeCells(MAP) \ {teams[id].cube : id \in Teams},
                               Len(MAP.boulders))
  /\ players = <<>>
  /\ now = StartTime
  /\ nextTick = StartTime
  /\ resetTimers = <<>>
  /\ connections = 0
  /\ horizon = StartTime
  /\ last = Emitted("listen", Null, Null)

NextMove ==
  \/ Tick
  \/ ResetTimeout
  \/ Advance

SpecMove == InitMove /\ [][NextMove]_vars

---------------------------------------------------------------------------
(* The lobby: more sockets than in Spec, over a shorter time, so that the  *)
(* team counts take every relative order (equal at zero, equal above zero, *)
(* red fewer, blue fewer) when a socket connects.                          *)

LobbySockets == 3    \* connections accepted over a run
LobbySteps == 1      \* clock steps during which clients send events

InitLobby ==
  /\ mapIndex = 0
  /\ MAP = loadMapFromFile(MAP_FILES[1])
  /\ validateMap(MAP)
  /\ teams = StartTeams(MAP)
  /\ boulders = StartBoulders(MAP)
  /\ players = <<>>
  /\ raceStarted = FALSE
  /\ now = StartTime
  /\ nextTick = StartTime + TICK_MS
  /\ resetTimers = <<>>
  /\ connections = 0
  /\ horizon = StartTime + LobbySteps * TimeStep
  /\ last = Emitted("listen", Null, Null)

NextLobby ==
  \/ \E s \in 1..LobbySockets : Connection(s)
  \/ \E s \in 1..LobbySockets, cmd \in Commands : Command(s, cmd)
  \/ \E s \in 1..LobbySockets : StartRace(s)
  \/ \E s \in 1..LobbySockets : NextMap(s)
  \/ \E s \in 1..LobbySockets : Disconnect(s)
  \/ Tick
  \/ ResetTimeout
  \/ Advance

SpecLobby == InitLobby /\ [][NextLobby]_vars

---------------------------------------------------------------------------
(* Vocabulary of the properties *)

Red == TEAM_IDS[1]
Blue == TEAM_IDS[2]

OnGoal(tms, map, id) == tms[id].cube = map.hole

(* Every cube on its start cell of `map`, every queue empty, the boulders  *)
(* at the initial positions of `map`.                                      *)
AtStart(tms, bs, map) ==
  /\ \A id \in Teams : /\ tms[id].cube = map.starts[id]
                       /\ tms[id].commandQueue = <<>>
  /\ bs = map.boulders

(* The cell next to c in the direction of cmd. *)
Neighbour(c, cmd) ==
  Cell(c.x + (IF cmd = "left" THEN -1 ELSE IF cmd = "right" THEN 1 ELSE 0),
       c.y + (IF cmd = "up" THEN -1 ELSE IF cmd = "down" THEN 1 ELSE 0))

(* The front command of team id's queue points from its cube to the goal. *)
TargetsGoal(id) ==
  /\ teams[id].commandQueue # <<>>
  /\ Neighbour(teams[id].cube, teams[id].commandQueue[1]) = MAP.hole

(* A step of the tick handler taken while the race is running. *)
RunningTick == raceStarted /\ last'.handler = "tick" /\ nextTick' # nextTick

---------------------------------------------------------------------------
(* C1: while the race is running, a tick removes exactly the front command *)
(* of every non-empty queue (the rest keeps its order) and applies it to   *)
(* that team's cube, red first and blue against the result; a team with an *)
(* empty queue keeps its cube where it was and its queue empty.            *)

C1_Front(id) ==
  IF teams[id].commandQueue = <<>> THEN Null ELSE teams[id].commandQueue[1]

C1_AfterRed == applyMove(MAP, teams, boulders, Red, C1_Front(Red))

C1_AfterBlue == applyMove(MAP, C1_AfterRed.teams, C1_AfterRed.boulders, Blue,
                          C1_Front(Blue))

C1_TickDrainsFifo ==
  [][RunningTick =>
       /\ teams'[Red].cube = C1_AfterRed.teams[Red].cube
       /\ teams'[Blue].cube = C1_AfterBlue.teams[Blue].cube
       /\ \A id \in Teams :
            LET q == teams[id].commandQueue
            IN IF q # <<>>
               THEN /\ Len(teams'[id].commandQueue) = Len(q) - 1
                    /\ \A i \in 1..(Len(q) - 1) :
                         teams'[id].commandQueue[i] = q[i + 1]
                    /\ last'.log[id] = q[1]
               ELSE /\ teams'[id].commandQueue = <<>>
                    /\ teams'[id].cube = teams[id].cube
                    /\ last'.log[id] = Null]_vars

(* A running tick has taken "down" from red's queue, moved red's cube off  *)
(* its start cell and left the second command queued, while blue, with     *)
(* nothing queued, stayed on its start cell.                               *)
C1_Witness ==
  /\ last.handler = "tick"
  /\ raceStarted
  /\ last.log = [id \in Teams |-> IF id = Red THEN "down" ELSE Null]
  /\ teams[Red].commandQueue = <<"right">>
  /\ teams[Red].cube = Cell(0, 1)
  /\ teams[Blue].cube = MAP.starts[Blue]
  /\ teams[Blue].commandQueue = <<>>
  /\ mapIndex = 0

---------------------------------------------------------------------------
(* C2 (as stated): when both cubes are on the goal cell at the goal check  *)
(* of a tick, that tick reports red, the first team of the iteration       *)
(* order.  src/server.js, where cubes do not collide, reaches the case.    *)

BothOnGoal(tms, map) == OnGoal(tms, map, Red) /\ OnGoal(tms, map, Blue)

C2_FirstTeamWins ==
  [][(RunningTick /\ BothOnGoal(teams', MAP)) => last'.arg = Red]_vars

(* C2 (amended): when both cubes are on the goal cell at the goal check of *)
(* a tick, that tick reports blue, the last team of the iteration order:   *)
(* every team on the goal overwrites the winner found before it.           *)

C2_LastTeamWins ==
  [][(RunningTick /\ BothOnGoal(teams', MAP)) =>
       last'.arg = TEAM_IDS[Len(TEAM_IDS)]]_vars

(* A running tick moved red right and blue left onto the goal and reported *)
(* a winner.                                                               *)
C2_Witness ==
  /\ last.handler = "tick"
  /\ last.started = TRUE
  /\ last.log = [id \in Teams |-> IF id = Red THEN "right" ELSE "left"]
  /\ BothOnGoal(teams, MAP)
  /\ last.arg = Blue
  /\ ~raceStarted

---------------------------------------------------------------------------
(* C3 (as stated): simultaneous arrival is possible, one team's move into  *)
(* the goal does not block the other team's move into the goal in the same *)
(* tick: when both front commands point at the goal and red's cube enters  *)
(* it, blue's cube is on the goal at the goal check too.                   *)

C3_SimultaneousArrival ==
  [][(RunningTick /\ TargetsGoal(Red) /\ TargetsGoal(Blue)
        /\ OnGoal(teams', MAP, Red)) => OnGoal(teams', MAP, Blue)]_vars

(* C3 (amended): simultaneous arrival is impossible.  In no reachable      *)
(* state, hence at no goal check, are both cubes on the goal cell: a move  *)
(* into the cell the other cube occupies is rejected.                      *)

C3_NoSimultaneousArrival == ~BothOnGoal(teams, MAP)

(* One running tick took "right" from red and "left" from blue, both       *)
(* pointing at the goal: red is on the goal and wins, blue is still on its *)
(* start cell next to it.                                                  *)
C3_Witness ==
  /\ last.handler = "tick"
  /\ last.started = TRUE
  /\ last.log = [id \in Teams |-> IF id = Red THEN "right" ELSE "left"]
  /\ mapIndex = 0
  /\ OnGoal(teams, MAP, Red)
  /\ teams[Blue].cube = MAP.starts[Blue]
  /\ Neighbour(teams[Blue].cube, "left") = MAP.hole
  /\ last.arg = Red

---------------------------------------------------------------------------
(* C4: the delayed reset is never cancelled.  A running tick that reports  *)
(* a winner adds a reset due RESET_DELAY_MS later; a pending reset leaves  *)
(* the timer list only by firing, not before it is due, and no start       *)
(* request or map change removes it; the clock never passes a due reset;   *)
(* and the firing puts every cube on the start cell of the map current     *)
(* then, empties every queue and restores that map's boulders, whatever    *)
(* the race status, which it leaves as it is.                              *)

C4_ResetNeverCancelled ==
  [][/\ (RunningTick /\ last'.arg # Null)
          => resetTimers' = Append(resetTimers, now + RESET_DELAY_MS)
     /\ (resetTimers' # resetTimers /\ ~(RunningTick /\ last'.arg # Null))
          => /\ resetTimers # <<>>
             /\ resetTimers' = Tail(resetTimers)
             /\ Head(resetTimers) <= now
             /\ last'.emit = "reset"
             /\ MAP' = MAP
             /\ raceStarted' = raceStarted
             /\ AtStart(teams', boulders', MAP)
     /\ (now' # now)
          => \A i \in 1..Len(resetTimers) : resetTimers[i] > now]_vars

(* A reset fired while a race was running on the second map: the map was   *)
(* changed and a race started after the win that scheduled it, and a       *)
(* command of that new race had been accepted.                             *)
C4_Witness ==
  /\ last.handler = "timeout"
  /\ last.emit = "reset"
  /\ last.started = TRUE
  /\ raceStarted
  /\ mapIndex = 1
  /\ \E s \in DOMAIN players :
       players[s].lastCommandTime > now - RESET_DELAY_MS
  /\ AtStart(teams, boulders, MAP)

---------------------------------------------------------------------------
(* C5: a running tick that finds a cube on the goal reports that team as   *)
(* winner in a snapshot that still says the race is running, sets the      *)
(* status to waiting in the same step and schedules a reset; and with the  *)
(* timers served (FairSpec), whenever a reset is pending a reset fires     *)
(* later, leaving every cube on its start cell, every queue empty and the  *)
(* boulders at their initial positions.  No fairness is assumed of the     *)
(* clients, so no start request is needed.                                 *)

C5_WinThenReset ==
  /\ [][(RunningTick /\ \E id \in Teams : OnGoal(teams', MAP, id))
          => /\ last'.arg \in Teams
             /\ OnGoal(teams', MAP, last'.arg)
             /\ last'.emit = "state"
             /\ last'.started = TRUE
             /\ raceStarted' = FALSE
             /\ resetTimers' = Append(resetTimers, now + RESET_DELAY_MS)]_vars
  /\ (resetTimers # <<>>)
       ~> (last.emit = "reset" /\ AtStart(teams, boulders, MAP))

(* The tick that has just found blue's cube on the goal: blue is reported  *)
(* in a snapshot with raceStarted true, the status is waiting and one      *)
(* reset is pending, due in RESET_DELAY_MS.                                *)
C5_Witness ==
  /\ last.handler = "tick"
  /\ last.emit = "state"
  /\ last.started = TRUE
  /\ last.arg = Blue
  /\ OnGoal(teams, MAP, Blue)
  /\ ~raceStarted
  /\ resetTimers = <<now + RESET_DELAY_MS>>

---------------------------------------------------------------------------
(* C6: a command submitted while the race is not running is rejected: it   *)
(* is not echoed, no command queue changes, no cube or boulder moves, no   *)
(* player's lastCommandTime changes.                                       *)

C6_RejectedWhenNotRunning ==
  [][(last'.handler = "command" /\ ~raceStarted)
       => /\ last'.emit \in {"race_not_started", Null}
          /\ UNCHANGED <<teams, boulders, players, raceStarted>>]_vars

(* After a win and before the reset, with a command still queued, a        *)
(* command was answered race_not_started.                                  *)
C6_Witness ==
  /\ last.handler = "command"
  /\ last.emit = "race_not_started"
  /\ ~raceStarted
  /\ resetTimers # <<>>
  /\ \E id \in Teams : teams[id].commandQueue # <<>>
  /\ \E s \in DOMAIN players : players[s].lastCommandTime > 0

---------------------------------------------------------------------------
(* C7: while the race is running, a valid command of a player who had a    *)
(* command accepted less than COMMAND_COOLDOWN_MS ago is answered          *)
(* rate_limited with the remaining time and changes no queue and no        *)
(* timestamp, while an accepted command appends exactly itself to the      *)
(* queue of the player's team: over the two submissions the queue grows by *)
(* exactly one element.                                                    *)

C7_CooldownRejectsSecond ==
  [][\A s \in SocketIds, cmd \in Directions :
       (s \in DOMAIN players /\ raceStarted /\ Command(s, cmd))
         => LET since == now - players[s].lastCommandTime
                team == players[s].teamId
            IN IF players[s].lastCommandTime # 0 /\ since < COMMAND_COOLDOWN_MS
               THEN /\ last'.emit = "rate_limited"
                    /\ last'.arg = COMMAND_COOLDOWN_MS - since
                    /\ UNCHANGED <<teams, players, boulders>>
               ELSE /\ last'.emit = "command_echo"
                    /\ teams'[team].commandQueue
                         = Append(teams[team].commandQueue, cmd)
                    /\ \A id \in Teams \ {team} : teams'[id] = teams[id]
                    /\ players'[s].lastCommandTime = now]_vars

(* The only player ever connected had "up" accepted and sent a second      *)
(* command at the same clock reading: it was refused with the full         *)
(* cooldown remaining, and red's queue holds the first command alone.      *)
C7_Witness ==
  /\ last.handler = "command"
  /\ last.emit = "rate_limited"
  /\ last.arg = COMMAND_COOLDOWN_MS
  /\ raceStarted
  /\ connections = 1
  /\ teams[Red].commandQueue = <<"up">>
  /\ teams[Blue].commandQueue = <<>>
  /\ \A s \in DOMAIN players : players[s].lastCommandTime = now

---------------------------------------------------------------------------
(* C8: a start request in status waiting sets the status to running and in *)
(* the same step puts every cube on its start cell, empties every queue    *)
(* and restores the map's initial boulders, whatever the state before.     *)

C8_StartResetsAll ==
  [][(last'.handler = "start_race" /\ ~raceStarted)
       => /\ raceStarted' = TRUE
          /\ last'.emit = "race_started"
          /\ MAP' = MAP
          /\ AtStart(teams', boulders', MAP)]_vars

(* A race started between a win and its delayed reset, that is from a      *)
(* state with a cube on the goal.                                          *)
C8_Witness ==
  /\ last.handler = "start_race"
  /\ last.emit = "race_started"
  /\ raceStarted
  /\ resetTimers # <<>>
  /\ AtStart(teams, boulders, MAP)

---------------------------------------------------------------------------
(* C9: a start request while the race is running changes nothing: status,  *)
(* cubes, command queues, boulders, map, players and the pending resets    *)
(* are as before.                                                          *)

C9_StartWhileRunningNoOp ==
  [][(last'.handler = "start_race" /\ raceStarted)
       => /\ last'.emit = Null
          /\ UNCHANGED <<raceStarted, teams, boulders, MAP, mapIndex, players,
                         resetTimers>>]_vars

(* A start request was ignored in mid-race: a cube is off its start cell   *)
(* and a command is queued.                                                *)
C9_Witness ==
  /\ last.handler = "start_race"
  /\ last.emit = Null
  /\ raceStarted
  /\ \E id \in Teams : teams[id].cube # MAP.starts[id]
  /\ \E id \in Teams : teams[id].commandQueue # <<>>

---------------------------------------------------------------------------
(* C10: a map change, in status waiting or running, in one step loads the  *)
(* next map, sets the status to waiting, puts every cube on the new map's  *)
(* start cell, empties every queue and sets the boulders to the new map's  *)
(* initial boulders; and in every reachable state the cubes and boulders   *)
(* lie on the grid of the current map, as many boulders as it defines.     *)

C10_OnCurrentMap ==
  /\ \A id \in Teams : inBounds(MAP, teams[id].cube.x, teams[id].cube.y)
  /\ \A i \in 1..Len(boulders) : inBounds(MAP, boulders[i].x, boulders[i].y)
  /\ Len(boulders) = Len(MAP.boulders)

C10_MapChangeAtomic ==
  /\ [][last'.handler = "next_map"
          => /\ mapIndex' = (mapIndex + 1) % Len(MAP_FILES)
             /\ MAP' = loadMapFromFile(MAP_FILES[mapIndex' + 1])
             /\ raceStarted' = FALSE
             /\ AtStart(teams', boulders', MAP')]_vars
  /\ []C10_OnCurrentMap

(* The map was changed in mid-race: a command had been accepted at this    *)
(* clock reading and the tick due now has not run yet.                     *)
C10_Witness ==
  /\ last.handler = "next_map"
  /\ last.emit = "map_changed"
  /\ mapIndex = 1
  /\ ~raceStarted
  /\ nextTick <= now
  /\ \E s \in DOMAIN players : players[s].lastCommandTime = now
  /\ AtStart(teams, boulders, MAP)

---------------------------------------------------------------------------
(* C11: a map change followed by a start request, from whatever state the  *)
(* map change was made in, mid-race included, yields status running on the *)
(* new map with every cube on that map's start cell, every queue empty and *)
(* the boulders at that map's initial positions.                           *)

C11_MapChangeThenStart ==
  [][(last.handler = "next_map" /\ last'.handler = "start_race")
       => /\ raceStarted' = TRUE
          /\ mapIndex' = mapIndex
          /\ MAP' = loadMapFromFile(MAP_FILES[mapIndex + 1])
          /\ AtStart(teams', boulders', MAP')]_vars

(* A race was started on the second map at a clock reading at which a      *)
(* command of the race on the first map had been accepted and the tick due *)
(* had not run: the map was changed in mid-race, then the race started.    *)
C11_Witness ==
  /\ last.handler = "start_race"
  /\ last.emit = "race_started"
  /\ raceStarted
  /\ mapIndex = 1
  /\ nextTick <= now
  /\ \E s \in DOMAIN players : players[s].lastCommandTime = now
  /\ \A id \in Teams : teams[id].cube = MAP.starts[id]
  /\ \A id \in Teams : teams[id].commandQueue = <<>>
  /\ boulders = loadMapFromFile(MAP_FILES[2]).boulders

---------------------------------------------------------------------------
(* Vocabulary of the movement properties.  The cells are described from    *)
(* the map and the positions, not through the predicates of applyMove.     *)

(* A running tick in which team id alone has a command queued: the step is *)
(* one resolution of that command against the state before the tick.       *)
SoloTick(id) ==
  /\ RunningTick
  /\ teams[id].commandQueue # <<>>
  /\ \A o \in Teams \ {id} : teams[o].commandQueue = <<>>

Front(id) == teams[id].commandQueue[1]

(* The cell the front command of team id points at, and the one behind it. *)
Target(id) == Neighbour(teams[id].cube, Front(id))
Beyond(id) == Neighbour(Target(id), Front(id))

OnGrid(c) == c \in GridCells(MAP)
BoulderOn(c) == \E i \in 1..Len(boulders) : boulders[i] = c
OtherCubeOn(id, c) == \E o \in Teams \ {id} : teams[o].cube = c

(* In bounds, no wall, no ledge, no boulder, no cube of another team. *)
Open(id, c) ==
  /\ OnGrid(c)
  /\ c \notin MAP.walls
  /\ c \notin MAP.ledges
  /\ ~BoulderOn(c)
  /\ ~OtherCubeOn(id, c)

OthersStay(id) == \A o \in Teams \ {id} : teams'[o].cube = teams[o].cube

---------------------------------------------------------------------------
(* C12: pushing a boulder is all or nothing.  When a cube moves toward a   *)
(* cell holding a boulder, then if the cell one further in that direction  *)
(* is in bounds, no wall, no ledge, holds no boulder and no other cube,    *)
(* the boulder ends on that further cell and the cube on the boulder's     *)
(* former cell; otherwise neither the cube nor any boulder moves.  And in  *)
(* no tick does a boulder move without a cube taking its former cell.      *)

C12_PushAllOrNothing ==
  [][/\ \A id \in Teams :
          (SoloTick(id) /\ BoulderOn(Target(id)))
            => /\ OthersStay(id)
               /\ IF Open(id, Beyond(id))
                  THEN /\ teams'[id].cube = Target(id)
                       /\ boulders' = [i \in 1..Len(boulders) |->
                                         IF boulders[i] = Target(id)
                                         THEN Beyond(id) ELSE boulders[i]]
                  ELSE /\ teams'[id].cube = teams[id].cube
                       /\ boulders' = boulders
     /\ RunningTick
          => \A i \in 1..Len(boulders) :
               boulders'[i] # boulders[i]
                 => \E id \in Teams : /\ teams'[id].cube = boulders[i]
                                      /\ teams[id].cube # boulders[i]]_vars

(* Red alone moved right and pushed the first boulder one cell on: the     *)
(* cube is where the boulder was, next to its old cell, and the boulder is *)
(* one cell further.                                                       *)
C12_Witness ==
  /\ last.handler = "tick"
  /\ last.log = [id \in Teams |-> IF id = Red THEN "right" ELSE Null]
  /\ last.moves[Red] = "PUSH BOULDER"
  /\ boulders[1] = Neighbour(teams[Red].cube, "right")

---------------------------------------------------------------------------
(* C13: a cube moving down into a ledge cell with no boulder on it lands   *)
(* on the cell below the ledge, two cells below its origin, exactly when   *)
(* that landing cell is in bounds, no wall, no ledge, holds no boulder and *)
(* no other cube; otherwise its position is unchanged.  Either way it is   *)
(* not on the ledge cell afterwards, and no boulder or other cube moves.   *)

C13_LedgeJump ==
  [][\A id \in Teams :
       (/\ SoloTick(id)
        /\ Front(id) = "down"
        /\ Target(id) \in MAP.ledges
        /\ ~BoulderOn(Target(id)))
         => /\ OthersStay(id)
            /\ boulders' = boulders
            /\ teams'[id].cube \notin MAP.ledges
            /\ IF Open(id, Beyond(id))
               THEN teams'[id].cube = Cell(teams[id].cube.x, teams[id].cube.y + 2)
               ELSE teams'[id].cube = teams[id].cube]_vars

(* Blue alone moved down over the ledge below the top row and stands two   *)
(* cells below the top row, the ledge cell between.                        *)
C13_Witness ==
  /\ last.handler = "tick"
  /\ last.log = [id \in Teams |-> IF id = Blue THEN "down" ELSE Null]
  /\ last.moves[Blue] = "LEDGE JUMP"
  /\ teams[Blue].cube.y = 2
  /\ Cell(teams[Blue].cube.x, 1) \in MAP.ledges

---------------------------------------------------------------------------
(* C14: an illegal move (target out of bounds, a wall, a ledge entered     *)
(* with a direction other than down, a blocked boulder push, a blocked     *)
(* ledge landing, or a target occupied by the other cube) removes the      *)
(* command from the team's queue and leaves that cube, the other cube and  *)
(* every boulder where they were; the race status is unchanged.            *)

C14_Illegal(id) ==
  \/ ~OnGrid(Target(id))
  \/ BoulderOn(Target(id)) /\ ~Open(id, Beyond(id))
  \/ ~BoulderOn(Target(id)) /\ Target(id) \in MAP.walls
  \/ ~BoulderOn(Target(id)) /\ Target(id) \in MAP.ledges /\ Front(id) # "down"
  \/ /\ ~BoulderOn(Target(id))
     /\ Target(id) \in MAP.ledges
     /\ Front(id) = "down"
     /\ ~Open(id, Beyond(id))
  \/ OtherCubeOn(id, Target(id))

C14_IllegalMoveNoOp ==
  [][\A id \in Teams :
       (SoloTick(id) /\ C14_Illegal(id))
         => /\ teams'[id].commandQueue = Tail(teams[id].commandQueue)
            /\ last'.log[id] = Front(id)
            /\ teams'[id].cube = teams[id].cube
            /\ OthersStay(id)
            /\ boulders' = boulders
            /\ raceStarted' = raceStarted
            /\ last'.arg = Null
            /\ resetTimers' = resetTimers]_vars

(* Red's only command pointed into a wall: the tick took it from the       *)
(* queue, the cube still stands next to the wall, the boulders did not     *)
(* move and the race goes on.                                              *)
C14_Witness ==
  /\ last.handler = "tick"
  /\ last.moves = [id \in Teams |->
                     IF id = Red THEN "RETURN: wall" ELSE "RETURN: no cmd"]
  /\ last.log[Red] \in Directions
  /\ Neighbour(teams[Red].cube, last.log[Red]) \in MAP.walls
  /\ teams[Red].commandQueue = <<>>
  /\ raceStarted
  /\ last.arg = Null

---------------------------------------------------------------------------
(* C15: for every direction, when the adjacent target cell is in bounds,   *)
(* no wall, no ledge, holds no boulder and is not occupied by the other    *)
(* cube, the move puts the cube exactly on the target cell; no boulder and *)
(* no other cube moves.                                                    *)

C15_NormalMove ==
  [][\A id \in Teams, cmd \in Directions :
       (SoloTick(id) /\ Front(id) = cmd /\ Open(id, Target(id)))
         => /\ teams'[id].cube = Neighbour(teams[id].cube, cmd)
            /\ last'.moves[id] = "NORMAL MOVE"
            /\ boulders' = boulders
            /\ OthersStay(id)]_vars

(* Red alone moved left onto the free cell in the corner of the grid; the  *)
(* race goes on.                                                           *)
C15_Witness ==
  /\ last.handler = "tick"
  /\ last.log = [id \in Teams |-> IF id = Red THEN "left" ELSE Null]
  /\ last.moves[Red] = "NORMAL MOVE"
  /\ teams[Red].cube = Cell(0, 0)
  /\ raceStarted

---------------------------------------------------------------------------
(* C16: a connecting player is assigned to a team with the minimum number  *)
(* of connected players, to red, the first team of the fixed order, when   *)
(* the counts are equal; and no step changes the team of a player who      *)
(* stays connected.                                                        *)

C16_Count(id) == Cardinality({x \in DOMAIN players : players[x].teamId = id})

C16_LeastPopulatedTeam ==
  [][/\ \A s \in DOMAIN players' \ DOMAIN players :
          /\ last'.handler = "connection"
          /\ players'[s].teamId \in Teams
          /\ \A id \in Teams : C16_Count(players'[s].teamId) <= C16_Count(id)
          /\ (C16_Count(Red) = C16_Count(Blue)) => players'[s].teamId = Red
     /\ \A s \in DOMAIN players \cap DOMAIN players' :
          players'[s].teamId = players[s].teamId]_vars

(* The third socket connected while one player was on each team and was    *)
(* put on red; the first had gone to red and the second to blue.           *)
C16_Witness ==
  /\ last.handler = "connection"
  /\ DOMAIN players = {1, 2, 3}
  /\ players[1].teamId = Red
  /\ players[2].teamId = Blue
  /\ players[3].teamId = Red

---------------------------------------------------------------------------
(* C17: a disconnect removes the player's record and nothing else: cubes,  *)
(* command queues, boulders, race status, map and pending resets are as    *)
(* before.  So a command accepted from a player who has left stays queued, *)
(* and a tick of the running race executes the front command of a team     *)
(* that has no connected player just as any other.                         *)

C17_TeamAbandoned(id) ==
  /\ teams[id].commandQueue # <<>>
  /\ \A s \in DOMAIN players : players[s].teamId # id

C17_DisconnectKeepsQueues ==
  [][/\ last'.handler = "disconnect"
          => /\ \E s \in DOMAIN players :
                  players' = [x \in DOMAIN players \ {s} |-> players[x]]
             /\ UNCHANGED <<teams, boulders, raceStarted, mapIndex, MAP,
                            resetTimers>>
     /\ \A id \in Teams :
          (RunningTick /\ C17_TeamAbandoned(id))
            => /\ last'.log[id] = Head(teams[id].commandQueue)
               /\ last'.moves[id] # "RETURN: no cmd"
               /\ teams'[id].commandQueue = Tail(teams[id].commandQueue)]_vars

(* No player is connected any more, and the tick has just taken red's      *)
(* command from the queue and moved red's cube off its start cell.         *)
C17_Witness ==
  /\ last.handler = "tick"
  /\ last.started = TRUE
  /\ players = <<>>
  /\ connections > 0
  /\ last.log[Red] = "down"
  /\ last.moves[Red] = "NORMAL MOVE"
  /\ teams[Red].cube = Neighbour(MAP.starts[Red], "down")

---------------------------------------------------------------------------
(* C18: within one tick red is resolved before blue, each against the      *)
(* positions the previous resolution left.  If both front commands point   *)
(* at the same free cell, red's cube takes it and blue's stays; if blue's  *)
(* front command points at the cell red's cube leaves in this tick, blue's *)
(* cube enters it; if red's front command points at the cell of blue's     *)
(* cube, red's cube stays, also when blue's cube leaves that cell in the   *)
(* same tick.                                                              *)

C18_Queued(id) == teams[id].commandQueue # <<>>

C18_RedThenBlue ==
  [][RunningTick =>
       /\ (/\ C18_Queued(Red) /\ C18_Queued(Blue)
           /\ Target(Red) = Target(Blue)
           /\ Open(Red, Target(Red)) /\ Open(Blue, Target(Blue)))
            => /\ teams'[Red].cube = Target(Red)
               /\ teams'[Blue].cube = teams[Blue].cube
       /\ (/\ C18_Queued(Blue)
           /\ Target(Blue) = teams[Red].cube
           /\ teams'[Red].cube # teams[Red].cube)
            => teams'[Blue].cube = teams[Red].cube
       /\ (C18_Queued(Red) /\ Target(Red) = teams[Blue].cube)
            => teams'[Red].cube = teams[Red].cube]_vars

(* In one tick red's move into blue's cell was rejected as a collision and *)
(* blue then moved off that very cell: red's cube stands next to the cell  *)
(* blue's cube has just left.                                              *)
C18_Witness ==
  /\ last.handler = "tick"
  /\ last.started = TRUE
  /\ last.moves = [id \in Teams |->
                     IF id = Red THEN "RETURN: cube collision" ELSE "NORMAL MOVE"]
  /\ Neighbour(Neighbour(teams[Red].cube, last.log[Red]), last.log[Blue])
       = teams[Blue].cube

---------------------------------------------------------------------------
(* C19: each win is reported by exactly one tick.  A tick reports a winner *)
(* only when it runs with the status running, the reported team's cube is  *)
(* then on the goal and the status becomes waiting in the same step; every *)
(* tick run with the status waiting reports no winner, moves no cube and   *)
(* no boulder, removes nothing from any queue and schedules no reset, also *)
(* while the winning cube is still on the goal cell.                       *)

C19_TickStep == last'.handler = "tick" /\ nextTick' # nextTick

C19_WinReportedOnce ==
  [][/\ (C19_TickStep /\ ~raceStarted)
          => /\ last'.emit = "state"
             /\ last'.arg = Null
             /\ last'.started = FALSE
             /\ UNCHANGED <<teams, boulders, raceStarted, resetTimers>>
     /\ (C19_TickStep /\ last'.arg # Null)
          => /\ raceStarted
             /\ ~raceStarted'
             /\ last'.arg \in Teams
             /\ OnGoal(teams', MAP, last'.arg)]_vars

(* A tick ran in status waiting after red's win and before the reset:      *)
(* red's cube is still on the goal, red still has a command queued, and    *)
(* the tick reported no winner.                                            *)
C19_Witness ==
  /\ last.handler = "tick"
  /\ last.started = FALSE
  /\ last.arg = Null
  /\ ~raceStarted
  /\ resetTimers # <<>>
  /\ OnGoal(teams, MAP, Red)
  /\ teams[Red].commandQueue # <<>>

---------------------------------------------------------------------------
(* C20: in every reachable state the two teams' cubes are on different     *)
(* cells (the start cells of every map are distinct): no move, push, ledge *)
(* jump, start, map change or delayed reset puts both on the same cell.    *)

C20_CubesApart ==
  \A a, b \in Teams : a # b => teams[a].cube # teams[b].cube

(* On the second map red moved onto the cell between the start cells and   *)
(* blue's move onto the same cell in the same tick was rejected as a       *)
(* collision: the cubes stand side by side and the race goes on.           *)
C20_Witness ==
  /\ last.handler = "tick"
  /\ last.started = TRUE
  /\ mapIndex = 1
  /\ last.moves = [id \in Teams |->
                     IF id = Red THEN "NORMAL MOVE" ELSE "RETURN: cube collision"]
  /\ teams[Blue].cube = MAP.starts[Blue]
  /\ teams[Red].cube = Neighbour(teams[Blue].cube, last.log[Blue])
  /\ raceStarted

---------------------------------------------------------------------------
(* C21: in every reachable state, for a well-formed map, every cube and    *)
(* every boulder is in bounds and on a cell that is neither wall nor       *)
(* ledge, no cube shares a cell with a boulder, no two boulders share a    *)
(* cell, and there are as many boulders as the current map defines.        *)

C21_Solid == MAP.walls \cup MAP.ledges

C21_WellPlaced ==
  /\ \A id \in Teams :
       /\ teams[id].cube \in GridCells(MAP)
       /\ teams[id].cube \notin C21_Solid
       /\ \A i \in 1..Len(boulders) : boulders[i] # teams[id].cube
  /\ \A i \in 1..Len(boulders) :
       /\ boulders[i] \in GridCells(MAP)
       /\ boulders[i] \notin C21_Solid
       /\ \A j \in 1..Len(boulders) : i # j => boulders[i] # boulders[j]
  /\ Len(boulders) = Len(MAP.boulders)

(* In one tick red pushed a boulder one cell on and blue's push of the     *)
(* other boulder was then rejected because the cell behind it held a       *)
(* boulder: red's cube stands where its boulder was and that boulder next  *)
(* to it.                                                                  *)
C21_Witness ==
  /\ last.handler = "tick"
  /\ last.started = TRUE
  /\ last.moves = [id \in Teams |->
                     IF id = Red THEN "PUSH BOULDER"
                     ELSE "RETURN: boulder push boulder"]
  /\ \E i \in 1..Len(boulders) :
       boulders[i] = Neighbour(teams[Red].cube, last.log[Red])
  /\ \E i \in 1..Len(boulders) :
       boulders[i] = Neighbour(teams[Blue].cube, last.log[Blue])

---------------------------------------------------------------------------
(* C22: whenever the status is waiting and no delayed reset is pending,    *)
(* every cube is on its start cell of the current map, every queue is      *)
(* empty and the boulders are at the map's initial positions.  A queue     *)
(* only changes by a command appended, by a tick taking its front command, *)
(* or by a reset, a map change or a start emptying it; a race begins with  *)
(* every queue empty; and with the timers served (FairSpec) queued         *)
(* commands always lead to a state with every queue empty: each accepted   *)
(* command is consumed or discarded, none survives into a later race.      *)

C22_Idle == ~raceStarted /\ resetTimers = <<>>

C22_SomeQueued == \E id \in Teams : teams[id].commandQueue # <<>>

C22_NoneQueued == \A id \in Teams : teams[id].commandQueue = <<>>

C22_IdleAtStart ==
  /\ [](C22_Idle => AtStart(teams, boulders, MAP))
  /\ [][/\ (~raceStarted /\ raceStarted')
             => /\ last'.handler = "start_race"
                /\ \A id \in Teams : teams'[id].commandQueue = <<>>
        /\ \A id \in Teams :
             teams'[id].commandQueue # teams[id].commandQueue
               => \/ /\ last'.emit = "command_echo"
                     /\ raceStarted
                     /\ \E cmd \in Directions :
                          teams'[id].commandQueue
                            = Append(teams[id].commandQueue, cmd)
                  \/ /\ RunningTick
                     /\ teams'[id].commandQueue = Tail(teams[id].commandQueue)
                  \/ /\ last'.handler \in {"timeout", "next_map", "start_race"}
                     /\ teams'[id].commandQueue = <<>>]_vars
  /\ C22_SomeQueued ~> C22_NoneQueued

(* The delayed reset has fired in status waiting and none is pending any   *)
(* more: the cubes are back on their start cells, the queues are empty and *)
(* the boulders restored, after a race in which the one connected player   *)
(* had a command accepted.                                                 *)
C22_Witness ==
  /\ last.handler = "timeout"
  /\ last.started = FALSE
  /\ ~raceStarted
  /\ resetTimers = <<>>
  /\ AtStart(teams, boulders, MAP)
  /\ \E s \in DOMAIN players : players[s].lastCommandTime > 0

=============================================================================
